---- MODULE Spec2Model ----
(***************************************************************************)
(* Model of extract_audio.py: the name-extraction heuristic                *)
(* (find_first_name), the transcription adapter (transcribe_audio) and the *)
(* batch orchestrator (process_video, main).                               *)
(*                                                                         *)
(* Text is a sequence of one-character strings.  Two specifications are    *)
(* defined: NameSpec applies find_first_name to transcripts drawn from a   *)
(* bounded set; Spec runs the batch (twice in a row) over a directory.     *)
(***************************************************************************)
EXTENDS Integers, Sequences, FiniteSets, TLC

VARIABLES
    text,          \* find_first_name: the argument
    fn_pc,         \* find_first_name: "call" before, "return" after
    result,        \* find_first_name: the returned name
    video_files,   \* main: the videos as glob lists them (stems, any order)
    transcript,    \* per video: what whisper recognises in its audio
    fs,            \* the script directory: file name -> content
    fs_initial,    \* the directory before the first run
    fs_run1,       \* the directory at the end of the first run
    run,           \* 1 = first run of the script, 2 = second run
    pc,            \* position in main
    idx,           \* position of the for loop in sorted(video_files)
    stage,         \* position in process_video for the current video
    status,        \* per video: how far its processing got in this run
    status_run1,   \* per video: outcome in the first run
    successful,    \* main's counter
    failed,        \* main's counter
    temp_dirs,     \* transcribe_audio: number of its mkdtemp directories that exist
    env_PATH       \* os.environ['PATH']: number of entries this process prepended

vars == <<text, fn_pc, result, video_files, transcript, fs, fs_initial, fs_run1, run,
          pc, idx, stage, status, status_run1, successful, failed, temp_dirs, env_PATH>>

-----------------------------------------------------------------------------
(* Characters and strings                                                  *)

UpperSeq ==
    <<"A","B","C","D","E","F","G","H","I","J","K","L","M",
      "N","O","P","Q","R","S","T","U","V","W","X","Y","Z">>
LowerSeq ==
    <<"a","b","c","d","e","f","g","h","i","j","k","l","m",
      "n","o","p","q","r","s","t","u","v","w","x","y","z">>
Upper == {UpperSeq[i] : i \in 1..Len(UpperSeq)}
Lower == {LowerSeq[i] : i \in 1..Len(LowerSeq)}
Digits == {"0","1","2","3","4","5","6","7","8","9"}

LowerOf == [c \in Upper |-> LowerSeq[CHOOSE i \in 1..Len(UpperSeq) : UpperSeq[i] = c]]

\* str.lower() on one character
ToLower(c) == IF c \in Upper THEN LowerOf[c] ELSE c

\* str.lower()
LowerStr(s) == [i \in 1..Len(s) |-> ToLower(s[i])]

\* str.isupper() on one character
IsUpper(c) == c \in Upper

\* [A-Z] and [a-z] under re.IGNORECASE
IsLetter(c) == c \in Upper \/ c \in Lower

\* \w
IsWordChar(c) == IsLetter(c) \/ c \in Digits \/ c = "_"

\* \s
IsSpace(c) == c \in {" ", "\t", "\n"}

Min(S) == CHOOSE x \in S : \A y \in S : x <= y
Max(S) == CHOOSE x \in S : \A y \in S : x >= y

\* s[:n]
Prefix(s, n) == IF Len(s) > n THEN SubSeq(s, 1, n) ELSE s

\* re.sub(r'[^\w]', '', s)
RECURSIVE StripNonWord(_)
StripNonWord(s) ==
    IF s = <<>> THEN <<>>
    ELSE IF IsWordChar(Head(s)) THEN <<Head(s)>> \o StripNonWord(Tail(s))
    ELSE StripNonWord(Tail(s))

\* start positions of the whitespace-separated words of s
WordStarts(s) ==
    {i \in 1..Len(s) : ~IsSpace(s[i]) /\ (i = 1 \/ IsSpace(s[i-1]))}

RECURSIVE WordEnd(_, _)
WordEnd(s, i) == IF i < Len(s) /\ ~IsSpace(s[i+1]) THEN WordEnd(s, i+1) ELSE i

\* str.split(): the words of s, in order
Split(s) ==
    LET starts == WordStarts(s)
        start(k) == CHOOSE i \in starts : Cardinality({j \in starts : j < i}) = k - 1
    IN  [k \in 1..Cardinality(starts) |-> SubSeq(s, start(k), WordEnd(s, start(k)))]

\* the mutant of FirstToken: the last word instead of the first
LastToken(s) == Split(s)[Len(Split(s))]

\* name_part.split()[0]
FirstToken(s) == Split(s)[1]

-----------------------------------------------------------------------------
(* Regular expressions: the fragment priority_patterns uses, matched the   *)
(* way re does (leftmost start, greedy repetition with backtracking),      *)
(* under re.IGNORECASE.                                                    *)

Lit(s) == [i \in 1..Len(s) |-> [t |-> "lit", c |-> s[i]]]
ClassAZ == <<[t |-> "class", c |-> "A-Z"]>>      \* [A-Z]
ClassazPlus == <<[t |-> "class+", c |-> "a-z"]>> \* [a-z]+
SpacePlus == <<[t |-> "space+", c |-> " "]>>     \* \s+
WordB == <<[t |-> "wordb", c |-> " "]>>          \* \b
GroupOpen == <<[t |-> "(", c |-> " "]>>
GroupClose == <<[t |-> ")", c |-> " "]>>
NameGroup == GroupOpen \o ClassAZ \o ClassazPlus \o GroupClose   \* ([A-Z][a-z]+)

Fail == [ok |-> FALSE, start |-> 0, end |-> 0, gs |-> 0, ge |-> 0]

RECURSIVE LetterRun(_, _)
LetterRun(s, i) == IF i <= Len(s) /\ IsLetter(s[i]) THEN 1 + LetterRun(s, i+1) ELSE 0

RECURSIVE SpaceRun(_, _)
SpaceRun(s, i) == IF i <= Len(s) /\ IsSpace(s[i]) THEN 1 + SpaceRun(s, i+1) ELSE 0

\* \b before position i
WordBoundary(s, i) ==
    LET before == i > 1 /\ i - 1 <= Len(s) /\ IsWordChar(s[i-1])
        after  == i <= Len(s) /\ IsWordChar(s[i])
    IN  before # after

\* pat[k..] matched against s from position i; end is one past the match
RECURSIVE MatchHere(_, _, _, _)
MatchHere(pat, k, s, i) ==
    IF k > Len(pat) THEN [ok |-> TRUE, start |-> 0, end |-> i, gs |-> 0, ge |-> 0]
    ELSE LET e == pat[k]
             rest(j) == MatchHere(pat, k+1, s, j)
             greedy(n) ==
                 LET J == {j \in 1..n : rest(i+j).ok}
                 IN  IF J = {} THEN Fail ELSE rest(i + Max(J))
         IN  CASE e.t = "lit" ->
                    IF i <= Len(s) /\ ToLower(s[i]) = ToLower(e.c)
                    THEN rest(i+1) ELSE Fail
               [] e.t = "class" ->
                    IF i <= Len(s) /\ IsLetter(s[i]) THEN rest(i+1) ELSE Fail
               [] e.t = "class+" -> greedy(LetterRun(s, i))
               [] e.t = "space+" -> greedy(SpaceRun(s, i))
               [] e.t = "wordb" -> IF WordBoundary(s, i) THEN rest(i) ELSE Fail
               [] e.t = "(" ->
                    LET r == rest(i) IN IF r.ok THEN [r EXCEPT !.gs = i] ELSE Fail
               [] e.t = ")" ->
                    LET r == rest(i) IN IF r.ok THEN [r EXCEPT !.ge = i] ELSE Fail

\* a match of pat starting exactly at position st
MatchAt(pat, s, st) ==
    LET r == MatchHere(pat, 1, s, st)
    IN  IF r.ok THEN [r EXCEPT !.start = st] ELSE Fail

\* every position of s at which pat matches
MatchStarts(pat, s) == {st \in 1..Len(s) : MatchHere(pat, 1, s, st).ok}

\* re.search(pat, s, re.IGNORECASE): the leftmost match
Search(pat, s) ==
    LET S == MatchStarts(pat, s)
    IN  IF S = {} THEN Fail ELSE MatchAt(pat, s, Min(S))

\* match.group(g) for g in {0, 1}
Group(s, m, g) ==
    IF g = 0 THEN SubSeq(s, m.start, m.end - 1) ELSE SubSeq(s, m.gs, m.ge - 1)

-----------------------------------------------------------------------------
(* find_first_name                                                         *)

IntroWindow == 500
FallbackWindow == 200
FallbackWords == 15
MinNameLen == 2

skip_words == {
    <<"T","h","e">>, <<"T","h","i","s">>, <<"T","h","a","t">>, <<"T","h","e","r","e">>,
    <<"H","e","r","e">>, <<"H","e","l","l","o">>, <<"H","i">>, <<"H","e","y">>, <<"M","y">>,
    <<"m","y">>, <<"I">>, <<"W","e">>, <<"Y","o","u">>, <<"E","v","e","r","y","b","o","d","y">>,
    <<"E","v","e","r","y","o","n","e">>, <<"A","n","y","o","n","e">>,
    <<"S","o","m","e","o","n","e">>, <<"S","o","m","e","t","h","i","n","g">>,
    <<"S","o","m","e","w","h","e","r","e">>, <<"T","o","d","a","y">>,
    <<"T","o","m","o","r","r","o","w">>, <<"Y","e","s","t","e","r","d","a","y">>,
    <<"N","o","w">>, <<"T","h","e","n">>, <<"W","h","e","n">>, <<"W","h","e","r","e">>,
    <<"W","h","a","t">>, <<"W","h","o">>, <<"W","h","y">>, <<"H","o","w">>,
    <<"V","i","d","e","o">>, <<"I","n","t","r","o">>,
    <<"I","n","t","r","o","d","u","c","t","i","o","n">>, <<"A","b","o","u","t">>, <<"M","e">>,
    <<"J","u","s","t">>, <<"j","u","s","t">>, <<"A","n","d">>, <<"O","r">>, <<"B","u","t">>,
    <<"S","e","n","i","o","r">>, <<"J","u","n","i","o","r">>,
    <<"S","o","p","h","o","m","o","r","e">>, <<"F","r","e","s","h","m","a","n">>,
    <<"U","n","d","e","r","g","r","a","d">>, <<"G","r","a","d">>, <<"T","e","a","m">>,
    <<"Y","e","a","r">>, <<"B","e","e","n">>, <<"H","a","v","e">>, <<"H","a","s">>,
    <<"H","a","d">>, <<"W","a","s">>, <<"W","e","r","e">>, <<"I","s">>, <<"A","r","e">>,
    <<"A","m">>, <<"B","e">>, <<"B","e","i","n","g">>, <<"I","n">>, <<"O","n">>, <<"A","t">>,
    <<"T","o">>, <<"F","o","r">>, <<"F","r","o","m">>, <<"W","i","t","h">>, <<"B","y">>,
    <<"O","f">>, <<"A","s">>, <<"A","n">>, <<"A">>, <<"F","i","r","s","t">>,
    <<"L","a","s","t">>, <<"N","e","x","t">>, <<"P","r","e","v","i","o","u","s">>,
    <<"C","u","r","r","e","n","t">>, <<"N","e","w">>, <<"O","l","d">>, <<"G","o","o","d">>,
    <<"B","a","d">>, <<"L","i","t","t","l","e">>, <<"B","i","g">>, <<"M","a","n","y">>,
    <<"M","u","c","h">>, <<"S","o","m","e">>, <<"A","n","y">>, <<"A","l","l">>,
    <<"E","a","c","h">>, <<"E","v","e","r","y">>, <<"B","o","t","h">>,
    <<"C","o","l","l","e","g","e">>, <<"U","n","i","v","e","r","s","i","t","y">>,
    <<"S","c","h","o","o","l">>, <<"S","e","m","e","s","t","e","r">>, <<"C","l","a","s","s">>,
    <<"C","o","u","r","s","e">>, <<"S","h","o","p">>, <<"T","w","o">>,
    <<"R","a","i","s","e","d">>, <<"B","o","r","n">>, <<"F","r","o","m">>,
    <<"L","i","v","i","n","g">>, <<"W","o","r","k","i","n","g">>, <<"D","o","i","n","g">>,
    <<"G","o","i","n","g">>, <<"G","e","t","t","i","n","g">>
    }

skip_words_lower == {LowerStr(w) : w \in skip_words}

W_here == <<"h","e","r","e">>
W_my == <<"m","y">>
W_name == <<"n","a","m","e">>
W_is == <<"i","s">>
W_i == <<"i">>
W_am == <<"a","m">>
W_im == <<"i","'","m">>
W_this == <<"t","h","i","s">>

priority_patterns == <<
    [pat |-> NameGroup \o SpacePlus \o Lit(W_here) \o WordB, group_idx |-> 0],
    [pat |-> Lit(W_my) \o SpacePlus \o Lit(W_name) \o SpacePlus \o Lit(W_is)
               \o SpacePlus \o NameGroup, group_idx |-> 1],
    [pat |-> Lit(W_i) \o SpacePlus \o Lit(W_am) \o SpacePlus \o NameGroup,
     group_idx |-> 1],
    [pat |-> Lit(W_im) \o SpacePlus \o NameGroup, group_idx |-> 1],
    [pat |-> Lit(W_this) \o SpacePlus \o Lit(W_is) \o SpacePlus \o NameGroup,
     group_idx |-> 1] >>

NoName == [found |-> FALSE, name |-> <<>>]
Found(n) == [found |-> TRUE, name |-> n]

\* intro_text = text[:500]
IntroText(t) == Prefix(t, IntroWindow)

\* the mutant of NameOk: the stopword test is dropped
NameOk_nostop(name) == name # <<>> /\ Len(name) > MinNameLen /\ IsUpper(name[1])

\* the tests a candidate must pass, on either path
NameOk(name) ==
    /\ name # <<>>
    /\ Len(name) > MinNameLen
    /\ LowerStr(name) \notin skip_words_lower
    /\ IsUpper(name[1])

\* the candidate a match of priority pattern p yields: first word, cleaned
CandidateOf(intro, p, m) ==
    StripNonWord(FirstToken(Group(intro, m, priority_patterns[p].group_idx)))

\* priority pattern p on intro_text: the cleaned candidate of its re.search
\* match, <<>> when there is no match
PatternCandidate(intro, p) ==
    LET m == Search(priority_patterns[p].pat, intro)
    IN  IF m.ok THEN CandidateOf(intro, p, m) ELSE <<>>

\* the patterns whose re.search candidate passes the tests
ValidPatterns(intro) ==
    {p \in 1..Len(priority_patterns) : NameOk(PatternCandidate(intro, p))}

\* the last-resort scan: a capitalised word followed by another one
FallbackScan(intro) ==
    LET words == Split(Prefix(intro, FallbackWindow))
        clean(i) == StripNonWord(words[i])
        limit == IF Len(words) < FallbackWords THEN Len(words) ELSE FallbackWords
        hits == {i \in 1..limit :
                    /\ NameOk(clean(i))
                    /\ i + 1 <= Len(words)
                    /\ NameOk(clean(i+1))}
    IN  IF hits = {} THEN NoName ELSE Found(clean(Min(hits)))

find_first_name(t) ==
    LET intro == IntroText(t)
        valid == ValidPatterns(intro)
    IN  IF valid # {} THEN Found(PatternCandidate(intro, Min(valid)))
        ELSE FallbackScan(intro)

-----------------------------------------------------------------------------
(* Transcripts the model feeds to find_first_name                          *)

MaxPieces == 3        \* pieces joined into an unpadded transcript
MaxPaddedPieces == 1  \* pieces that follow a long filler

Pieces == {
    <<"S","a","r","a","h">>,
    <<"J","o","h","n","s","o","n">>,
    <<"h","e","r","e">>,
    <<"A","l">>,
    <<"H","i">>,
    <<"I"," ","a","m"," ","T","o","d","a","y",".">>,
    <<"i","'","m"," ","C","a","r","o","l",",">>,
    <<"m","y"," ","n","a","m","e"," ","i","s"," ","A","l","i","c","e">>,
    <<"t","h","i","s"," ","i","s"," ","B","o","b">>,
    <<"I"," ","a","m"," ","D","a","v","e">>,
    <<"h","e","y"," ","e","v","e","r","y","o","n","e",",">> }

\* "Hey everyone, Sarah Johnson here, and today I'll be..."
T_SarahJohnson ==
    <<"H","e","y"," ","e","v","e","r","y","o","n","e",","," ","S","a","r","a","h"," ",
      "J","o","h","n","s","o","n"," ","h","e","r","e",","," ","a","n","d"," ",
      "t","o","d","a","y"," ","I","'","l","l"," ","b","e",".",".",".">>

\* "Um, okay, let's get started with the project overview."
T_Overview ==
    <<"U","m",","," ","o","k","a","y",","," ","l","e","t","'","s"," ","g","e","t"," ",
      "s","t","a","r","t","e","d"," ","w","i","t","h"," ","t","h","e"," ",
      "p","r","o","j","e","c","t"," ","o","v","e","r","v","i","e","w",".">>

\* "Hello there, I am Today going to explain"
T_Today ==
    <<"H","e","l","l","o"," ","t","h","e","r","e",","," ","I"," ","a","m"," ",
      "T","o","d","a","y"," ","g","o","i","n","g"," ","t","o"," ",
      "e","x","p","l","a","i","n">>

Scenarios == {T_SarahJohnson, T_Overview, T_Today}

PieceSeqs(n) == UNION {[1..k -> Pieces] : k \in 0..n}

RECURSIVE Join(_)
Join(ps) ==
    IF ps = <<>> THEN <<>>
    ELSE IF Len(ps) = 1 THEN ps[1]
    ELSE ps[1] \o <<" ">> \o Join(Tail(ps))

\* n characters of "um um um ...": matches no pattern and holds no name
Filler(n) == [i \in 1..n |-> IF i % 3 = 1 THEN "u" ELSE IF i % 3 = 2 THEN "m" ELSE " "]

\* filler lengths: a name right behind the fallback window's edge, a name cut
\* by the intro window's edge, a phrase wholly behind the intro window
Pads == {FallbackWindow - 8, IntroWindow - 14, IntroWindow + 1}

Transcripts ==
    {Join(ps) : ps \in PieceSeqs(MaxPieces)}
    \cup {Filler(n) \o Join(ps) : n \in Pads, ps \in PieceSeqs(MaxPaddedPieces)}
    \cup Scenarios

-----------------------------------------------------------------------------
(* The script directory                                                    *)

MaxVideos == 2   \* *.mp4 files in the directory

\* the stems of the videos, "v1" < "v2" < ...: Path order is the order of
\* the numbers
Stems == 1..MaxVideos
DigitSeq == <<"0","1","2","3","4","5","6","7","8","9">>
StemName(v) == <<"v", DigitSeq[v + 1]>>

W_mp3 == <<".","m","p","3">>
W_audio == <<"a","u","d","i","o">>
W_temp_audio == <<"t","e","m","p","_","a","u","d","i","o","_">>

\* what whisper can hear in a video of the directory
BatchTranscripts == {T_SarahJohnson, T_Overview}

\* file contents: none, a file that was there before the script ran, the
\* audio track of video v
NoFile == <<"none", 0>>
OldFile == <<"old", 0>>
AudioOf(v) == <<"audio", v>>

\* temp_mp3 = video_path.parent / f"temp_audio_{video_path.stem}.mp3"
TempName(v) == W_temp_audio \o StemName(v) \o W_mp3

\* re.sub(r'[^\w\s-]', '', name)
RECURSIVE StripUnsafe(_)
StripUnsafe(s) ==
    IF s = <<>> THEN <<>>
    ELSE IF IsWordChar(Head(s)) \/ IsSpace(Head(s)) \/ Head(s) = "-"
         THEN <<Head(s)>> \o StripUnsafe(Tail(s))
         ELSE StripUnsafe(Tail(s))

\* str.strip()
RECURSIVE Strip(_)
Strip(s) ==
    IF s = <<>> THEN <<>>
    ELSE IF IsSpace(Head(s)) THEN Strip(Tail(s))
    ELSE IF IsSpace(s[Len(s)]) THEN Strip(SubSeq(s, 1, Len(s) - 1))
    ELSE s

\* re.sub(r'[-\s]+', '-', s)
RECURSIVE CollapseHyphens(_)
CollapseHyphens(s) ==
    IF s = <<>> THEN <<>>
    ELSE IF Head(s) = "-" \/ IsSpace(Head(s))
         THEN IF Len(s) > 1 /\ (s[2] = "-" \/ IsSpace(s[2]))
              THEN CollapseHyphens(Tail(s))
              ELSE <<"-">> \o CollapseHyphens(Tail(s))
         ELSE <<Head(s)>> \o CollapseHyphens(Tail(s))

\* safe_name
SafeName(name) == CollapseHyphens(Strip(StripUnsafe(FirstToken(name))))

\* final_mp3: <safe_name>.mp3, or audio.mp3 when no name was found
TargetName(r) == IF r.found THEN SafeName(r.name) \o W_mp3 ELSE W_audio \o W_mp3

\* name = find_first_name(transcription) and the final_mp3 it gives, for
\* each transcript of the directory
TargetTable == [t \in BatchTranscripts |-> TargetName(find_first_name(t))]

TargetOf(t) == TargetTable[t]

TargetNames == {TargetTable[t] : t \in BatchTranscripts}
TempNames == {TempName(v) : v \in Stems}
FileNames == TargetNames \cup TempNames

\* the mutant of TargetExists: the target is taken to be free
TargetExists_never(f, target) == FALSE

\* final_mp3.exists()
TargetExists(f, target) == f[target] # NoFile

\* the mutant of SortedVideos: the videos in glob's order
SortedVideos_unsorted(files) == files

\* sorted(video_files)
SortedVideos(files) ==
    LET S == {files[i] : i \in 1..Len(files)}
        nth(k) == CHOOSE v \in S : Cardinality({w \in S : w < v}) = k - 1
    IN  [k \in 1..Len(files) |-> nth(k)]

\* script_dir.glob("*.mp4"): the n videos in any order
GlobOrders(n) ==
    {f \in [1..n -> 1..n] : \A i, j \in 1..n : i # j => f[i] # f[j]}

-----------------------------------------------------------------------------
(* transcribe_audio                                                        *)

\* how the ffmpeg set-up ends: imageio_ffmpeg cannot be imported (nothing is
\* created), mkdtemp succeeds and the symlink or copy raises (the directory
\* exists, PATH is untouched), or all of it succeeds
SetupOutcomes == {"no_imageio", "link_failed", "ok"}

\* how the whisper part ends: it returns the text; it raises something other
\* than ImportError (the model does not load, decoding fails); whisper is
\* missing, pip installs it and the second attempt returns the text; whisper
\* is missing and pip or the second attempt raises inside the handler
BodyOutcomes == {"ok", "error", "installed", "install_failed"}

\* the effect of one call: whether it raises, how many of its temporary
\* directories are left, how many PATH entries it leaves
transcribe_audio(setup, body) ==
    LET made_dir == setup # "no_imageio"
        in_path  == setup = "ok"
        cleaned  == body # "install_failed"
    IN  [raised |-> body \in {"error", "install_failed"},
         dirs_left |-> IF made_dir /\ ~cleaned THEN 1 ELSE 0,
         path_left |-> IF in_path THEN 1 ELSE 0]

-----------------------------------------------------------------------------
(* main and process_video                                                  *)

Terminal == {"Finalized", "Skipped", "Failed"}

\* the video the for loop is at
Current == SortedVideos(video_files)[idx]

Remove(f, name) == [f EXCEPT ![name] = NoFile]

\* if temp_mp3.exists(): temp_mp3.unlink()
UnlinkTemp(f, v) == IF f[TempName(v)] # NoFile THEN Remove(f, TempName(v)) ELSE f

\* temp_mp3.rename(final_mp3)
Rename(f, v, target) == [f EXCEPT ![target] = f[TempName(v)], ![TempName(v)] = NoFile]

\* the mutant of main_except: the exception leaves the for loop
main_except_reraise(n) == [pc |-> "aborted", failed |-> n]

\* main's except clause: the failure is counted and the loop goes on
main_except(n) == [pc |-> "loop", failed |-> n + 1]

Init ==
    /\ text = <<>> /\ fn_pc = "idle" /\ result = NoName
    /\ \E n \in 0..MaxVideos :
          /\ video_files \in GlobOrders(n)
          /\ transcript \in [1..n -> BatchTranscripts]
          /\ status = [v \in 1..n |-> "Discovered"]
    /\ fs \in [FileNames -> {NoFile, OldFile}]
    /\ \A name \in TempNames : fs[name] = NoFile
    /\ fs_initial = fs
    /\ fs_run1 = fs
    /\ status_run1 = status
    /\ run = 1
    /\ pc = "start"
    /\ idx = 1
    /\ stage = "extract"
    /\ successful = 0
    /\ failed = 0
    /\ temp_dirs = 0
    /\ env_PATH = 0

\* main: no *.mp4 file, sys.exit(1)
NoVideoFiles ==
    /\ pc = "start"
    /\ video_files = <<>>
    /\ pc' = "exit"
    /\ UNCHANGED <<text, fn_pc, result, video_files, transcript, fs, fs_initial,
                   fs_run1, run, idx, stage, status, status_run1, successful, failed,
                   temp_dirs, env_PATH>>

\* main: the for loop is entered
StartBatch ==
    /\ pc = "start"
    /\ video_files # <<>>
    /\ pc' = "loop"
    /\ idx' = 1
    /\ stage' = "extract"
    /\ successful' = 0
    /\ failed' = 0
    /\ UNCHANGED <<text, fn_pc, result, video_files, transcript, fs, fs_initial,
                   fs_run1, run, status, status_run1, temp_dirs, env_PATH>>

\* process_video: the audio is extracted to the temp file (ffmpeg -y); when
\* ffmpeg fails, with or without a partial file, the temp file is removed
ExtractAudio ==
    /\ pc = "loop" /\ idx <= Len(video_files) /\ stage = "extract"
    /\ LET v == Current IN
       \/ /\ fs' = [fs EXCEPT ![TempName(v)] = AudioOf(v)]
          /\ status' = [status EXCEPT ![v] = "AudioExtracted"]
          /\ stage' = "transcribe"
          /\ UNCHANGED <<idx, failed>>
       \/ /\ \E partial \in BOOLEAN :
                fs' = UnlinkTemp(IF partial
                                 THEN [fs EXCEPT ![TempName(v)] = <<"partial", v>>]
                                 ELSE fs, v)
          /\ status' = [status EXCEPT ![v] = "Failed"]
          /\ failed' = failed + 1
          /\ idx' = idx + 1
          /\ stage' = "extract"
    /\ UNCHANGED <<text, fn_pc, result, video_files, transcript, fs_initial, fs_run1,
                   run, pc, status_run1, successful, temp_dirs, env_PATH>>

\* process_video: the temp file is transcribed; when transcribe_audio raises,
\* the temp file is removed
TranscribeAudio ==
    /\ pc = "loop" /\ idx <= Len(video_files) /\ stage = "transcribe"
    /\ \E setup \in SetupOutcomes, body \in BodyOutcomes :
         LET v == Current
             r == transcribe_audio(setup, body)
         IN  /\ temp_dirs' = temp_dirs + r.dirs_left
             /\ env_PATH' = env_PATH + r.path_left
             /\ IF r.raised
                THEN /\ fs' = UnlinkTemp(fs, v)
                     /\ status' = [status EXCEPT ![v] = "Failed"]
                     /\ failed' = failed + 1
                     /\ idx' = idx + 1
                     /\ stage' = "extract"
                ELSE /\ status' = [status EXCEPT ![v] = "Transcribed"]
                     /\ stage' = "name"
                     /\ UNCHANGED <<fs, failed, idx>>
    /\ UNCHANGED <<text, fn_pc, result, video_files, transcript, fs_initial, fs_run1,
                   run, pc, status_run1, successful>>

\* process_video: the name is looked for and the temp file finalised: skipped
\* when the target exists, renamed otherwise; a rename that raises is caught
\* by main
NameAndFinalize ==
    /\ pc = "loop" /\ idx <= Len(video_files) /\ stage = "name"
    /\ LET v == Current
           target == TargetOf(transcript[v])
       IN  IF TargetExists(fs, target)
           THEN /\ fs' = UnlinkTemp(fs, v)
                /\ status' = [status EXCEPT ![v] = "Skipped"]
                /\ successful' = successful + 1
                /\ UNCHANGED <<failed, pc>>
           ELSE \/ /\ fs' = Rename(fs, v, target)
                   /\ status' = [status EXCEPT ![v] = "Finalized"]
                   /\ successful' = successful + 1
                   /\ UNCHANGED <<failed, pc>>
                \/ /\ status' = [status EXCEPT ![v] = "Failed"]
                   /\ failed' = main_except(failed).failed
                   /\ pc' = main_except(failed).pc
                   /\ UNCHANGED <<fs, successful>>
    /\ idx' = idx + 1
    /\ stage' = "extract"
    /\ UNCHANGED <<text, fn_pc, result, video_files, transcript, fs_initial, fs_run1,
                   run, status_run1, temp_dirs, env_PATH>>

\* main: the for loop is over, the summary is printed
Summary ==
    /\ pc = "loop" /\ idx > Len(video_files)
    /\ pc' = "summary"
    /\ UNCHANGED <<text, fn_pc, result, video_files, transcript, fs, fs_initial,
                   fs_run1, run, idx, stage, status, status_run1, successful, failed,
                   temp_dirs, env_PATH>>

\* the script is started again in the directory the first run left: a new
\* process (its PATH is fresh), the same videos
SecondRun ==
    /\ pc = "summary" /\ run = 1
    /\ run' = 2
    /\ pc' = "start"
    /\ fs_run1' = fs
    /\ status_run1' = status
    /\ status' = [v \in DOMAIN status |-> "Discovered"]
    /\ idx' = 1
    /\ stage' = "extract"
    /\ successful' = 0
    /\ failed' = 0
    /\ env_PATH' = 0
    /\ UNCHANGED <<text, fn_pc, result, video_files, transcript, fs, fs_initial,
                   temp_dirs>>

\* one run of the script
RunNext ==
    \/ NoVideoFiles
    \/ StartBatch
    \/ ExtractAudio
    \/ TranscribeAudio
    \/ NameAndFinalize
    \/ Summary

Next ==
    \/ RunNext
    \/ SecondRun

Spec == Init /\ [][Next]_vars

\* one run in which every call returns: the external tools come back and the
\* loop goes on
FairSpec == Init /\ [][RunNext]_vars /\ WF_vars(RunNext)

-----------------------------------------------------------------------------
(* find_first_name applied to the bounded transcripts                      *)

NameInit ==
    /\ text \in Transcripts
    /\ fn_pc = "call"
    /\ result = NoName
    /\ video_files = <<>> /\ transcript = <<>> /\ status = <<>> /\ status_run1 = <<>>
    /\ fs = [name \in FileNames |-> NoFile]
    /\ fs_initial = fs /\ fs_run1 = fs
    /\ run = 1 /\ pc = "idle" /\ idx = 1 /\ stage = "idle"
    /\ successful = 0 /\ failed = 0 /\ temp_dirs = 0 /\ env_PATH = 0

CallFindFirstName ==
    /\ fn_pc = "call"
    /\ result' = find_first_name(text)
    /\ fn_pc' = "return"
    /\ UNCHANGED <<text, video_files, transcript, fs, fs_initial, fs_run1, run, pc,
                   idx, stage, status, status_run1, successful, failed, temp_dirs,
                   env_PATH>>

NameNext == CallFindFirstName

NameSpec == NameInit /\ [][NameNext]_vars

-----------------------------------------------------------------------------
(* Properties of the batch                                                 *)

Succeeded(st) == st \in {"Finalized", "Skipped"}

\* C1: a file that exists at an output path is never overwritten, replaced or
\* deleted; when the target of the current video exists, the video is Skipped:
\* its temp file is deleted and it is counted as successful, not as failed.
C1_NoOverwrite ==
    [][ /\ \A name \in TargetNames : fs[name] # NoFile => fs'[name] = fs[name]
        /\ (pc = "loop" /\ stage = "name"
              /\ fs[TargetOf(transcript[Current])] # NoFile)
           => /\ status'[Current] = "Skipped"
              /\ fs'[TempName(Current)] = NoFile
              /\ successful' = successful + 1
              /\ failed' = failed
              /\ pc' = "loop" ]_vars

\* C1 witness: a video was Skipped in front of a file that was there before
\* the script ran, and that file is still the old one.
C1_Witness ==
    \E v \in DOMAIN status :
        /\ status[v] = "Skipped"
        /\ fs_initial[TargetOf(transcript[v])] = OldFile
        /\ fs[TargetOf(transcript[v])] = OldFile
        /\ fs[TempName(v)] = NoFile

\* C2: once a file is counted as Failed, its temp audio artifact no longer
\* exists, whatever the failure was.
C2_TempRemovedOnFailure ==
    \A v \in DOMAIN status : status[v] = "Failed" => fs[TempName(v)] = NoFile

\* C3: a failure never aborts the batch: files are processed one at a time in
\* sorted order (a file is started only when every file before it is
\* terminal), a terminal outcome never changes within a run, every file is
\* terminal when the summary is printed, and the summary is reached.
C3_BatchCompletes ==
    /\ [](\A v, w \in DOMAIN status :
            (v < w /\ status[w] # "Discovered") => status[v] \in Terminal)
    /\ [][\A v \in DOMAIN status :
            (status[v] \in Terminal /\ run' = run) => status'[v] = status[v]]_vars
    /\ [](pc = "summary" =>
            /\ \A v \in DOMAIN status : status[v] \in Terminal
            /\ successful + failed = Len(video_files))
    /\ [](pc = "loop" => <>(pc = "summary"))

\* C3 witness: the summary is reached although the rename of a file raised
\* and was caught by main (its temp file is still there), and a file after
\* the failed one was finalised.
C3_Witness ==
    /\ pc = "summary"
    /\ \E v, w \in DOMAIN status :
          /\ v < w
          /\ status[v] = "Failed" /\ fs[TempName(v)] # NoFile
          /\ status[w] = "Finalized"

\* C4 as stated: the second run reports every file as Skipped and leaves the
\* directory as the first run left it.
C4_Original ==
    (pc = "summary" /\ run = 2) =>
        /\ \A v \in DOMAIN status : status[v] = "Skipped"
        /\ fs = fs_run1

\* C4 amended: in the second run a file the first run Finalized or Skipped is
\* never finalised again and its output is unchanged; it ends Skipped, or
\* Failed when its extraction or transcription fails in that run.  When the
\* first run left no Failed file, no output changes during the second run and
\* the directory after it equals the directory after the first run.
C4_SecondRunSkips ==
    run = 2 =>
        /\ \A v \in DOMAIN status :
              Succeeded(status_run1[v]) =>
                 /\ status[v] # "Finalized"
                 /\ fs[TargetOf(transcript[v])] = fs_run1[TargetOf(transcript[v])]
                 /\ (pc = "summary" =>
                        /\ status[v] \in {"Skipped", "Failed"}
                        /\ fs[TempName(v)] = NoFile)
        /\ (\A v \in DOMAIN status : Succeeded(status_run1[v])) =>
              /\ \A name \in TargetNames : fs[name] = fs_run1[name]
              /\ (pc = "summary" => fs = fs_run1)

\* C4 witness: the second run is over, the first run left no Failed file, and
\* a file the first run finalised was Skipped by the second.
C4_Witness ==
    /\ pc = "summary" /\ run = 2
    /\ \A v \in DOMAIN status : Succeeded(status_run1[v])
    /\ \E v \in DOMAIN status : status_run1[v] = "Finalized" /\ status[v] = "Skipped"
    /\ fs = fs_run1

W_Sarah == <<"S","a","r","a","h">>

\* C5: for the transcript "Hey everyone, Sarah Johnson here, and today I'll
\* be..." find_first_name returns "Sarah", and a video with that transcript
\* that is finalised becomes Sarah.mp3.
C5_SarahScenario ==
    \A v \in DOMAIN status :
        (transcript[v] = T_SarahJohnson /\ status[v] = "Finalized") =>
            /\ find_first_name(transcript[v]) = Found(W_Sarah)
            /\ W_Sarah \o W_mp3 \in DOMAIN fs
            /\ fs[W_Sarah \o W_mp3] = AudioOf(v)

\* C9: outside a call of transcribe_audio none of its temporary directories
\* exists and PATH holds none of the entries it added.
C9_TranscribeReleases == temp_dirs = 0 /\ env_PATH = 0

InitiallyEmpty == \A name \in FileNames : fs_initial[name] = NoFile

\* whether process_video got as far as computing the target for v in the
\* first run: it succeeded, or the rename raised (the temp file is still there)
ReachedNaming(v) ==
    Succeeded(status[v]) \/ (status[v] = "Failed" /\ fs[TempName(v)] # NoFile)

\* C10 as stated: from a directory without .mp3 files, of the videos that
\* yield the same target only the earliest in sorted order is Finalized and
\* each later one is Skipped.
C10_Original ==
    (pc = "summary" /\ run = 1 /\ InitiallyEmpty) =>
        \A v, w \in DOMAIN status :
            (v < w /\ ReachedNaming(v) /\ ReachedNaming(w)
               /\ TargetOf(transcript[v]) = TargetOf(transcript[w]))
            => (status[w] = "Skipped" /\ fs[TempName(w)] = NoFile)

\* the videos that did not fail and whose target is name
NonFailedWith(name) ==
    {v \in DOMAIN status : Succeeded(status[v]) /\ TargetOf(transcript[v]) = name}

\* C10 amended: from a directory without .mp3 files, of the videos that do not
\* fail and yield the same target, the earliest in sorted order is Finalized
\* with that file and each later one is Skipped, its temp file deleted; all of
\* them are counted as successful, and the output files are exactly the
\* distinct targets of the non-failed videos.
C10_EarliestWins ==
    (pc = "summary" /\ run = 1 /\ InitiallyEmpty) =>
        /\ \A name \in TargetNames :
              LET S == NonFailedWith(name) IN
              IF S = {} THEN fs[name] = NoFile
              ELSE /\ status[Min(S)] = "Finalized"
                   /\ fs[name] = AudioOf(Min(S))
                   /\ \A w \in S \ {Min(S)} : status[w] = "Skipped"
                   /\ \A w \in S : fs[TempName(w)] = NoFile
        /\ successful = Cardinality({v \in DOMAIN status : Succeeded(status[v])})
        /\ Cardinality({name \in TargetNames : fs[name] # NoFile})
             = Cardinality({TargetOf(transcript[v]) :
                              v \in {u \in DOMAIN status : Succeeded(status[u])}})

\* C10 witness: two videos with the same target in an empty directory, the
\* earlier Finalized, the later Skipped.
C10_Witness ==
    /\ pc = "summary" /\ run = 1 /\ InitiallyEmpty
    /\ \E v, w \in DOMAIN status :
          /\ v < w
          /\ TargetOf(transcript[v]) = TargetOf(transcript[w])
          /\ status[v] = "Finalized" /\ status[w] = "Skipped"
          /\ fs[TargetOf(transcript[v])] = AudioOf(v)

-----------------------------------------------------------------------------
(* Properties of find_first_name                                           *)

\* the letters a text begins with
LeadingWord(t) == SubSeq(t, 1, LetterRun(t, 1))

\* first letter uppercase, the others lowercase
IsCapitalized(w) ==
    w # <<>> /\ w[1] \in Upper /\ \A i \in 2..Len(w) : w[i] \in Lower

\* t begins "<Name> here": a capitalised word of at least minlen letters that
\* is no stopword, a space, the word "here"
LeadsWithNameHere(t, minlen) ==
    LET w == LeadingWord(t)
        n == Len(w)
    IN  /\ n >= minlen
        /\ IsCapitalized(w)
        /\ LowerStr(w) \notin skip_words_lower
        /\ Len(t) >= n + 5
        /\ SubSeq(t, n + 1, n + 5) = <<" ">> \o W_here
        /\ (Len(t) = n + 5 \/ ~IsWordChar(t[n + 6]))

\* C6 as stated: for a transcript that begins "<Name> here", <Name> a
\* capitalised word of at least two letters that is no stopword,
\* find_first_name returns exactly <Name>.
C6_Original ==
    (fn_pc = "return" /\ LeadsWithNameHere(text, 2)) => result = Found(LeadingWord(text))

\* C6 amended: for a transcript that begins "<Name> here", <Name> a capitalised
\* word of at least three letters that is no stopword, find_first_name returns
\* exactly <Name>.
C6_NameHere ==
    (fn_pc = "return" /\ LeadsWithNameHere(text, 3)) => result = Found(LeadingWord(text))

\* C6 witness: such a transcript, with more speech after "here", was answered
\* with its leading name.
C6_Witness ==
    /\ fn_pc = "return"
    /\ LeadsWithNameHere(text, 3)
    /\ Len(text) > Len(LeadingWord(text)) + 5
    /\ result = Found(LeadingWord(text))

\* a name as the data model wants it: non-empty, longer than two characters,
\* first character uppercase, lowercase form no stopword
IsValidName(n) ==
    /\ n # <<>>
    /\ Len(n) > 2
    /\ n[1] \in Upper
    /\ LowerStr(n) \notin skip_words_lower

\* the first 500 characters
First500(t) == SubSeq(t, 1, IF Len(t) < 500 THEN Len(t) ELSE 500)

\* the valid names priority pattern p captures anywhere in s
ValidCaptures(s, p) ==
    {n \in {CandidateOf(s, p, MatchAt(priority_patterns[p].pat, s, st)) :
               st \in MatchStarts(priority_patterns[p].pat, s)} : IsValidName(n)}

\* C7: when the first 500 characters hold a valid-name match for two different
\* priority patterns, the name returned is one captured by the pattern earlier
\* in the priority order; and what lies behind the first 500 characters never
\* determines the result.
C7_PatternPriority ==
    fn_pc = "return" =>
        LET s == First500(text)
            P == {p \in 1..Len(priority_patterns) : ValidCaptures(s, p) # {}}
        IN  /\ Cardinality(P) >= 2 =>
                  (result.found /\ result.name \in ValidCaptures(s, Min(P)))
            /\ result = find_first_name(s)

\* the priority patterns whose re.search match is turned down
Rejected(s) ==
    {p \in 1..Len(priority_patterns) :
        /\ Search(priority_patterns[p].pat, s).ok
        /\ ~IsValidName(PatternCandidate(s, p))}

\* the priority patterns whose re.search match is a valid name
Accepted(s) ==
    {p \in 1..Len(priority_patterns) :
        /\ Search(priority_patterns[p].pat, s).ok
        /\ IsValidName(PatternCandidate(s, p))}

\* C8: the result is absent or a valid name (non-empty, longer than two
\* characters, first character uppercase, lowercase form no stopword); a
\* pattern match that is turned down does not end the search: a later pattern
\* with a valid match still gives the name, and with none the fallback pair
\* scan decides.
C8_ResultValid ==
    fn_pc = "return" =>
        LET s == First500(text) IN
        /\ result.found => IsValidName(result.name)
        /\ ~result.found => result = NoName
        /\ (Rejected(s) # {} /\ Accepted(s) # {}) =>
              result = Found(PatternCandidate(s, Min(Accepted(s))))
        /\ (Rejected(s) # {} /\ Accepted(s) = {}) => result = FallbackScan(s)

\* C8 witness: a stopword or a two-letter candidate was turned down and a
\* name was still found by a later pattern.
C8_Witness ==
    /\ fn_pc = "return"
    /\ Rejected(First500(text)) # {}
    /\ \E p \in Rejected(First500(text)) : p < Min(Accepted(First500(text)) \cup {9})
    /\ result.found

====
